---- MODULE Spec2Model ----
(***************************************************************************)
(* A model of the PDF parser service (src/pdf-parser-service/main.py).     *)
(*                                                                         *)
(*   Spec      the /parse and /parse-text-only request handlers            *)
(*   SpecNorm  the text normalizer _post_process_text, applied twice       *)
(*   SpecPage  the per-page selector _extract_page_text_rawdict with its   *)
(*             fallbacks (_extract_page_text_blocks, plain text)           *)
(*   SpecSeg   the tail of _extract_page_text_rawdict: global line sort    *)
(*             and paragraph segmentation, on a finer coordinate grid      *)
(*                                                                         *)
(* Text is a sequence of one-character strings.  Coordinates are integers  *)
(* in sixteenths of a point: every such value and every difference of two  *)
(* of them is an exact binary float, so the float arithmetic of the code   *)
(* is exact integer arithmetic here.                                       *)
(***************************************************************************)
EXTENDS Integers, Sequences, FiniteSets, TLC

VARIABLES
    \* ---- request handler (parse_pdf / parse_pdf_text_only)
    endpoint,       \* which handler serves the request
    content_ok,     \* file.content_type starts with "application/pdf"
    doc,            \* the uploaded document: [n |-> pages, enc |-> encryption]
    pc,             \* position in the handler
    exc,            \* the exception in flight, "none" when there is none
    hstate,         \* handle (1 primary, 2 retry) -> "unopened" | "open" | "closed"
    needs_pass,     \* handle -> pdf_document.needs_pass
    page_num,       \* loop variable
    page_count,     \* pdf_document.page_count as read by the handler
    pages_data,     \* list of PageText.page_number appended so far
    full_text,      \* the pages whose text was concatenated so far
    calls,          \* backend calls issued: [op, h, locked]
    opens,          \* number of fitz.open calls
    raised,         \* every exception raised so far: [kind, at]
    response,       \* "none" or what reaches the caller
    \* ---- text normalizer
    n_pc, n_in, n_once, n_twice,
    \* ---- page selector
    p_pc,           \* TryRich | TryBlock | TryPlain | Done | Raised
    queries,        \* the get_text queries issued, in order
    richAns, blockAns, plainAns,   \* what the backend answered ("unasked" before)
    collected_lines,               \* the (y0, y1, x0, text) tuples of tier 1
    p_result,       \* the string returned by the selector
    surfaced        \* the query whose exception reached the caller

reqVars  == <<endpoint, content_ok, doc, pc, exc, hstate, needs_pass, page_num,
              page_count, pages_data, full_text, calls, opens, raised, response>>
normVars == <<n_pc, n_in, n_once, n_twice>>
pageVars == <<p_pc, queries, richAns, blockAns, plainAns, collected_lines,
              p_result, surfaced>>
vars     == <<reqVars, normVars, pageVars>>

\* ------------------------------------------------------------------ bounds
MaxPages == 2

\* ------------------------------------------------------------ idle parts
ReqIdle ==
    /\ endpoint = "parse" /\ content_ok = TRUE /\ doc = [n |-> 0, enc |-> "none"]
    /\ pc = "idle" /\ exc = "none"
    /\ hstate = [h \in {1, 2} |-> "unopened"]
    /\ needs_pass = [h \in {1, 2} |-> FALSE]
    /\ page_num = 0 /\ page_count = 0 /\ pages_data = <<>> /\ full_text = <<>>
    /\ calls = {} /\ opens = 0 /\ raised = <<>> /\ response = "none"

NormIdle ==
    /\ n_pc = "idle" /\ n_in = <<>> /\ n_once = <<>> /\ n_twice = <<>>

PageIdle ==
    /\ p_pc = "idle" /\ queries = <<>>
    /\ richAns = [st |-> "unasked", val |-> <<>>]
    /\ blockAns = [st |-> "unasked", val |-> <<>>]
    /\ plainAns = [st |-> "unasked", val |-> <<>>]
    /\ collected_lines = <<>> /\ p_result = <<>> /\ surfaced = "none"

\* ============================================================ the request
Endpoints == {"parse", "parse_text_only"}

\* What the backend (fitz) may raise.  FileDataError derives from
\* RuntimeError in PyMuPDF; ValueError stands for any other Exception.
ExcKinds == {"RuntimeError", "FileDataError", "ValueError"}

IsRuntimeError(e) == e \in {"RuntimeError", "FileDataError"}

\* fastapi.HTTPException derives from Exception, not from RuntimeError.
Http400NotPdf    == "HTTPException400:File must be a PDF"
Http400Encrypted == "HTTPException400:PDF is encrypted and requires a password"

Raise(kind, at) == Append(raised, [kind |-> kind, at |-> at])

\* The queries one run of the selector issues for each way it can end.
SelectorOutcomes == {"rich", "block", "plain"}

SelectorQueries(outcome) ==
    CASE outcome = "rich"  -> {"rawdict"}
      [] outcome = "block" -> {"rawdict", "blocks"}
      [] outcome = "plain" -> {"rawdict", "blocks", "text"}

Call(op, h) == [op |-> op, h |-> h, locked |-> needs_pass[h]]

\* A handler that opens the document without `with` and never closes it.
CloseHandleLeak(hs, h) == hs

\* Leaving a `with fitz.open(...) as pdf_document:` block closes the handle.
CloseHandle(hs, h) == [hs EXCEPT ![h] = "closed"]

InitReq ==
    /\ endpoint \in Endpoints
    /\ content_ok \in BOOLEAN
    /\ doc \in [n : 0..MaxPages, enc : {"none", "empty", "locked"}]
    /\ pc = "start" /\ exc = "none"
    /\ hstate = [h \in {1, 2} |-> "unopened"]
    /\ needs_pass = [h \in {1, 2} |-> FALSE]
    /\ page_num = 0 /\ page_count = 0 /\ pages_data = <<>> /\ full_text = <<>>
    /\ calls = {} /\ opens = 0 /\ raised = <<>> /\ response = "none"

\* main.py 197-212: content-type validation, read, pages_data = [], full_text = "".
Validate ==
    /\ pc = "start"
    /\ IF content_ok
         THEN /\ pc' = "open1"
              /\ UNCHANGED <<exc, raised>>
         ELSE /\ pc' = "outer_except"
              /\ exc' = Http400NotPdf
              /\ raised' = Raise(Http400NotPdf, "validate")
    /\ UNCHANGED <<normVars, pageVars, endpoint, content_ok, doc, hstate, needs_pass, page_num,
                   page_count, pages_data, full_text, calls, opens, response>>

\* main.py 214: fitz.open(stream=file_content).  A raise leaves no handle and
\* goes straight to the except clauses of the inner try (241) and outer try.
OpenPrimary ==
    /\ pc = "open1"
    /\ opens' = opens + 1
    /\ \/ /\ hstate' = [hstate EXCEPT ![1] = "open"]
          /\ needs_pass' = [needs_pass EXCEPT ![1] = (doc.enc # "none")]
          /\ pc' = "auth"
          /\ UNCHANGED <<exc, raised>>
       \/ \E e \in ExcKinds :
            /\ raised' = Raise(e, "open1")
            /\ IF IsRuntimeError(e)
                 THEN pc' = "open2" /\ exc' = "none"
                 ELSE pc' = "outer_except" /\ exc' = e
            /\ UNCHANGED <<hstate, needs_pass>>
    /\ UNCHANGED <<normVars, pageVars, endpoint, content_ok, doc, page_num, page_count, pages_data,
                   full_text, calls, response>>

\* main.py 216-220: authenticate("") when needs_pass; any exception is dropped.
Authenticate ==
    /\ pc = "auth"
    /\ pc' = "check"
    /\ IF needs_pass[1]
         THEN \/ needs_pass' = [needs_pass EXCEPT ![1] = (doc.enc # "empty")]
              \/ UNCHANGED needs_pass
         ELSE UNCHANGED needs_pass
    /\ UNCHANGED <<normVars, pageVars, endpoint, content_ok, doc, exc, hstate, page_num, page_count,
                   pages_data, full_text, calls, opens, raised, response>>

\* main.py 221-224 (316-320): still locked -> HTTPException(400); else read
\* page_count (parse_pdf_text_only also sets full_text = "" here).
CheckNeedsPass ==
    /\ pc = "check"
    /\ IF needs_pass[1]
         THEN /\ exc' = Http400Encrypted
              /\ raised' = Raise(Http400Encrypted, "check")
              /\ pc' = "exit1"
              /\ UNCHANGED <<page_num, page_count, full_text>>
         ELSE /\ page_count' = doc.n
              /\ page_num' = 0
              /\ full_text' = IF endpoint = "parse_text_only" THEN <<>> ELSE full_text
              /\ pc' = "loop1"
              /\ UNCHANGED <<exc, raised>>
    /\ UNCHANGED <<normVars, pageVars, endpoint, content_ok, doc, hstate, needs_pass, pages_data,
                   calls, opens, response>>

\* Appending one page's result (main.py 235-240, 251-252, 328, 338).
AppendPage ==
    /\ pages_data' = IF endpoint = "parse"
                       THEN Append(pages_data, page_num + 1) ELSE pages_data
    /\ full_text' = Append(full_text, page_num + 1)
    /\ page_num' = page_num + 1

\* main.py 225-240 (321-328): one iteration of the primary loop.
PrimaryPage ==
    /\ pc = "loop1" /\ page_num < page_count
    /\ \/ \E e \in ExcKinds :                      \* load_page raises
            /\ calls' = calls \cup {Call("load_page", 1)}
            /\ exc' = e /\ raised' = Raise(e, "page1") /\ pc' = "exit1"
            /\ UNCHANGED <<pages_data, full_text, page_num>>
       \/ \E e \in ExcKinds :                      \* the selector raises
            /\ calls' = calls \cup {Call("load_page", 1)}
                              \cup {Call(q, 1) : q \in SelectorQueries("plain")}
            /\ exc' = e /\ raised' = Raise(e, "page1") /\ pc' = "exit1"
            /\ UNCHANGED <<pages_data, full_text, page_num>>
       \/ \E o \in SelectorOutcomes :
            /\ calls' = calls \cup {Call("load_page", 1)}
                              \cup {Call(q, 1) : q \in SelectorQueries(o)}
            /\ AppendPage
            /\ UNCHANGED <<exc, raised, pc>>
    /\ UNCHANGED <<normVars, pageVars, endpoint, content_ok, doc, hstate, needs_pass, page_count,
                   opens, response>>

\* main.py 214/241: the with block ends (normally or by an exception): the
\* handle is closed, then `except RuntimeError` decides.
PrimaryExit ==
    /\ \/ pc = "exit1"
       \/ pc = "loop1" /\ page_num = page_count
    /\ hstate' = CloseHandle(hstate, 1)
    /\ IF exc = "none" THEN pc' = "finish" /\ exc' = exc
       ELSE IF IsRuntimeError(exc) THEN pc' = "open2" /\ exc' = "none"
       ELSE pc' = "outer_except" /\ exc' = exc
    /\ UNCHANGED <<normVars, pageVars, endpoint, content_ok, doc, needs_pass, page_num, page_count,
                   pages_data, full_text, calls, opens, raised, response>>

\* main.py 245-246 (332-334): reopen from a fresh buffer; no authentication,
\* no needs_pass test; parse_pdf_text_only resets full_text, parse_pdf does
\* not reset pages_data or full_text.
OpenRetry ==
    /\ pc = "open2"
    /\ opens' = opens + 1
    /\ \/ /\ hstate' = [hstate EXCEPT ![2] = "open"]
          /\ needs_pass' = [needs_pass EXCEPT ![2] = (doc.enc # "none")]
          /\ page_count' = doc.n
          /\ page_num' = 0
          /\ full_text' = IF endpoint = "parse_text_only" THEN <<>> ELSE full_text
          /\ pc' = "loop2"
          /\ UNCHANGED <<exc, raised>>
       \/ \E e \in ExcKinds :
            /\ raised' = Raise(e, "open2")
            /\ exc' = e /\ pc' = "outer_except"
            /\ UNCHANGED <<hstate, needs_pass, page_count, page_num, full_text>>
    /\ UNCHANGED <<normVars, pageVars, endpoint, content_ok, doc, pages_data, calls, response>>

\* The text queries of one retry iteration: parse_pdf asks for plain text
\* only (249), parse_pdf_text_only runs the selector (337).
RetryQueries(o) == IF endpoint = "parse" THEN {"text"} ELSE SelectorQueries(o)

\* main.py 247-252 (335-338): one iteration of the retry loop.
RetryPage ==
    /\ pc = "loop2" /\ page_num < page_count
    /\ \/ \E e \in ExcKinds :
            /\ calls' = calls \cup {Call("load_page", 2)}
            /\ exc' = e /\ raised' = Raise(e, "page2") /\ pc' = "exit2"
            /\ UNCHANGED <<pages_data, full_text, page_num>>
       \/ \E e \in ExcKinds :
            /\ calls' = calls \cup {Call("load_page", 2)}
                              \cup {Call(q, 2) : q \in RetryQueries("plain")}
            /\ exc' = e /\ raised' = Raise(e, "page2") /\ pc' = "exit2"
            /\ UNCHANGED <<pages_data, full_text, page_num>>
       \/ \E o \in SelectorOutcomes :
            /\ calls' = calls \cup {Call("load_page", 2)}
                              \cup {Call(q, 2) : q \in RetryQueries(o)}
            /\ AppendPage
            /\ UNCHANGED <<exc, raised, pc>>
    /\ UNCHANGED <<normVars, pageVars, endpoint, content_ok, doc, hstate, needs_pass, page_count,
                   opens, response>>

\* main.py 245: the retry's with block ends; nothing catches inside.
RetryExit ==
    /\ \/ pc = "exit2"
       \/ pc = "loop2" /\ page_num = page_count
    /\ hstate' = CloseHandle(hstate, 2)
    /\ pc' = IF exc = "none" THEN "finish" ELSE "outer_except"
    /\ UNCHANGED <<normVars, pageVars, endpoint, content_ok, doc, exc, needs_pass, page_num,
                   page_count, pages_data, full_text, calls, opens, raised,
                   response>>

\* main.py 254-268 (340-348): the successful response.
Finish ==
    /\ pc = "finish"
    /\ response' = [status |-> 200, detail |-> "ok", pages |-> pages_data,
                    text |-> full_text, page_count |-> page_count]
    /\ pc' = "done"
    /\ UNCHANGED <<normVars, pageVars, endpoint, content_ok, doc, exc, hstate, needs_pass, page_num,
                   page_count, pages_data, full_text, calls, opens, raised>>

\* main.py 270-281 (350-361): `except fitz.FileDataError` -> 400 Invalid PDF;
\* `except Exception` -> 500 Failed to parse PDF, HTTPException included.
OuterExcept ==
    /\ pc = "outer_except"
    /\ response' = IF exc = "FileDataError"
                     THEN [status |-> 400, detail |-> "Invalid PDF file", cause |-> exc]
                     ELSE [status |-> 500, detail |-> "Failed to parse PDF", cause |-> exc]
    /\ pc' = "done"
    /\ UNCHANGED <<normVars, pageVars, endpoint, content_ok, doc, exc, hstate, needs_pass, page_num,
                   page_count, pages_data, full_text, calls, opens, raised>>

Next ==
    \/ Validate
    \/ OpenPrimary
    \/ Authenticate
    \/ CheckNeedsPass
    \/ PrimaryPage
    \/ PrimaryExit
    \/ OpenRetry
    \/ RetryPage
    \/ RetryExit
    \/ Finish
    \/ OuterExcept

Init == InitReq /\ NormIdle /\ PageIdle

Spec == Init /\ [][Next]_vars

\* ------------------------------------------------- claims on the request
Returned == pc = "done"

RaisedAt(at) == \E i \in 1..Len(raised) : raised[i].at = at

RaisedKind(kind) == \E i \in 1..Len(raised) : raised[i].kind = kind

RetryAttempted == pc = "open2" \/ opens >= 2

OpenHandles == {h \in {1, 2} : hstate[h] = "open"}

\* C2: in every successful /parse response pages[i].page_number = i+1 (here
\* 1-based: the i-th entry carries number i), ascending, no page repeated.
C2_PageNumbersMatchIndex ==
    (Returned /\ endpoint = "parse" /\ response.status = 200)
        => \A i \in 1..Len(response.pages) : response.pages[i] = i

\* C5: when extraction of a page fails on the primary path, whatever the
\* exception type, the request ends in failure: no response carries pages.
C5_PageFailureFailsRequest ==
    (Returned /\ endpoint = "parse" /\ RaisedAt("page1"))
        => response.status # 200

\* C6: a document still locked after authenticate("") is answered with
\* HTTP 400 'PDF is encrypted and requires a password', not with HTTP 500.
C6_EncryptedAnswered400 ==
    (Returned /\ RaisedKind(Http400Encrypted))
        => /\ response.status = 400
           /\ response.detail = "PDF is encrypted and requires a password"

\* C7: load_page and the text queries are never issued against a handle
\* that still needs a password, on the primary or on the retry handle.
C7_NoCallOnLockedHandle ==
    endpoint = "parse" => \A c \in calls : ~c.locked

\* C8: every handle opened is closed before the request returns, on every
\* exit path, and two handles are never open at once.
C8_HandlesScoped ==
    /\ Cardinality(OpenHandles) <= 1
    /\ hstate[2] # "unopened" => hstate[1] # "open"
    /\ pc = "open2" => hstate[1] # "open"
    /\ pc \in {"finish", "outer_except", "done"} => OpenHandles = {}

\* C8 witness: a request that opened both handles has returned.
C8_BothHandlesUsedAndReturned ==
    /\ Returned /\ response.status = 200
    /\ hstate[1] = "closed" /\ hstate[2] = "closed"

\* C9: in /parse the reopen-retry happens only when the initial open itself
\* failed, at most once (at most two opens); the retry issues only the plain
\* text query; a failure in the retry ends the request in failure.
C9_RetryOnlyAfterOpenFailure ==
    endpoint = "parse" =>
        /\ RetryAttempted => RaisedAt("open1")
        /\ opens <= 2
        /\ \A c \in calls : c.h = 2 => c.op \in {"load_page", "text"}
        /\ (RaisedAt("open2") \/ RaisedAt("page2"))
              => /\ pc \in {"exit2", "outer_except", "done"}
                 /\ Returned => response.status # 200

\* The parts of C9 that do not depend on why the retry was entered.
C9_RetryBoundedAndPlainOnly ==
    endpoint = "parse" =>
        /\ opens <= 2
        /\ \A c \in calls : c.h = 2 => c.op \in {"load_page", "text"}
        /\ (RaisedAt("open2") \/ RaisedAt("page2"))
              => /\ pc \in {"exit2", "outer_except", "done"}
                 /\ Returned => response.status # 200

\* ===================================================== the text normalizer
MaxPieces == 5

NUL == "NUL"                \* the character "\x00"
NL  == "\n"

WordChars  == {"a", "h", "t", "p", "s"}          \* regex \w among the characters used
SpaceChars == {" ", NL}                          \* regex \s and str.strip()

HttpsSlash  == <<"h", "t", "t", "p", "s", ":", "/">>
HttpsScheme == HttpsSlash \o <<"/">>

\* s.replace("\x00", "")                                        (main.py 61)
RECURSIVE RemoveNul(_)
RemoveNul(s) ==
    IF s = <<>> THEN <<>>
    ELSE IF Head(s) = NUL THEN RemoveNul(Tail(s))
    ELSE <<Head(s)>> \o RemoveNul(Tail(s))

HasAt(s, i, lit) ==
    /\ i + Len(lit) - 1 <= Len(s)
    /\ \A k \in 1..Len(lit) : s[i + k - 1] = lit[k]

\* The first index >= i that holds no whitespace (Len(s)+1 when none).
RECURSIVE SkipSpace(_, _)
SkipSpace(s, i) ==
    IF i <= Len(s) /\ s[i] \in SpaceChars THEN SkipSpace(s, i + 1) ELSE i

\* re.sub(r"https:/\s*/", "https://", s), from index i on       (main.py 63)
\* Matches are found left to right and do not overlap.
RECURSIVE SubUrl(_, _)
SubUrl(s, i) ==
    IF i > Len(s) THEN <<>>
    ELSE IF HasAt(s, i, HttpsSlash)
            /\ SkipSpace(s, i + 7) <= Len(s)
            /\ s[SkipSpace(s, i + 7)] = "/"
         THEN HttpsScheme \o SubUrl(s, SkipSpace(s, i + 7) + 1)
    ELSE <<s[i]>> \o SubUrl(s, i + 1)

\* re.sub(r"(\w)-\n(\w)", r"\1\2", s), from index i on          (main.py 65)
\* The scan resumes after the second word character of a match.
RECURSIVE SubHyphen(_, _)
SubHyphen(s, i) ==
    IF i > Len(s) THEN <<>>
    ELSE IF /\ i + 3 <= Len(s)
            /\ s[i] \in WordChars /\ s[i + 1] = "-" /\ s[i + 2] = NL
            /\ s[i + 3] \in WordChars
         THEN <<s[i], s[i + 3]>> \o SubHyphen(s, i + 4)
    ELSE <<s[i]>> \o SubHyphen(s, i + 1)

RECURSIVE LStrip(_)
LStrip(s) ==
    IF s # <<>> /\ Head(s) \in SpaceChars THEN LStrip(Tail(s)) ELSE s

RECURSIVE RStrip(_)
RStrip(s) ==
    IF s # <<>> /\ s[Len(s)] \in SpaceChars
      THEN RStrip(SubSeq(s, 1, Len(s) - 1)) ELSE s

\* s.strip()                                                    (main.py 66)
Strip(s) == RStrip(LStrip(s))

\* _post_process_text                                        (main.py 57-66)
post_process_text(s) ==
    IF s = <<>> THEN s
    ELSE Strip(SubHyphen(SubUrl(RemoveNul(s), 1), 1))

\* The inputs: up to MaxPieces pieces, concatenated.
Pieces == {<<"a">>, <<"-">>, <<NL>>, <<"-", NL>>, <<" ">>, <<NUL>>,
           HttpsSlash, <<"/">>}

RECURSIVE Flatten(_)
Flatten(ps) == IF ps = <<>> THEN <<>> ELSE Head(ps) \o Flatten(Tail(ps))

NormInputs ==
    {Flatten(ps) : ps \in UNION {[1..k -> Pieces] : k \in 0..MaxPieces}}

InitNorm ==
    /\ ReqIdle /\ PageIdle
    /\ n_pc = "input" /\ n_in \in NormInputs
    /\ n_once = <<>> /\ n_twice = <<>>

\* A caller normalizes a string (main.py 233: the page text).
NormalizeOnce ==
    /\ n_pc = "input"
    /\ n_once' = post_process_text(n_in)
    /\ n_pc' = "once"
    /\ UNCHANGED <<reqVars, pageVars, n_in, n_twice>>

\* The result is normalized again (main.py 254: full_text, built from the
\* already normalized page texts).
NormalizeTwice ==
    /\ n_pc = "once"
    /\ n_twice' = post_process_text(n_once)
    /\ n_pc' = "twice"
    /\ UNCHANGED <<reqVars, pageVars, n_in, n_once>>

NextNorm ==
    \/ NormalizeOnce
    \/ NormalizeTwice

SpecNorm == InitNorm /\ [][NextNorm]_vars

\* C4: the normalizer is idempotent, for every input string.
C4_NormalizerIdempotent ==
    n_pc = "twice" => n_twice = n_once

\* The hyphen join of one isolated break is as documented: "a-\na" -> "aa".
C4_SingleBreakJoined ==
    (n_pc = "once" /\ n_in = <<"a", "-", NL, "a">>) => n_once = <<"a", "a">>

\* ======================================================= the page selector
MaxLines  == 3      \* text lines on a page (rich answer), over all blocks
MaxBlocks == 2      \* blocks in a rich answer or in a block answer

\* n points, in the model's unit of 1/16 point.
Pt(n) == 16 * n

\* Python's round(v, 1) of the float v = k/16, in tenths.  k/16 is an exact
\* binary float; the two exact ties of each unit (.25 and .75) go to the
\* even digit (.2 and .8).
RoundTenths == <<0, 1, 1, 2, 2, 3, 4, 4, 5, 6, 6, 7, 8, 8, 9, 9>>

Round1(k) == 10 * (k \div 16) + RoundTenths[(k % 16) + 1]

\* Tuple comparison of two sort keys (pairs).
KeyLeq(a, b) == a[1] < b[1] \/ (a[1] = b[1] /\ a[2] <= b[2])

\* sorted()/list.sort(): ascending in the key, equal keys keep their order.
\* The argument is a sequence of <<key, element>> pairs.
InsertByKey(ps, p) ==
    LET idx == Cardinality({i \in 1..Len(ps) : KeyLeq(ps[i][1], p[1])})
    IN  SubSeq(ps, 1, idx) \o <<p>> \o SubSeq(ps, idx + 1, Len(ps))

RECURSIVE StableSort(_)
StableSort(ps) ==
    IF ps = <<>> THEN <<>>
    ELSE InsertByKey(StableSort(SubSeq(ps, 1, Len(ps) - 1)), ps[Len(ps)])

Elements(ps) == [i \in 1..Len(ps) |-> ps[i][2]]

\* "sep".join(texts)
RECURSIVE Join(_, _)
Join(texts, sep) ==
    IF texts = <<>> THEN <<>>
    ELSE IF Len(texts) = 1 THEN texts[1]
    ELSE texts[1] \o sep \o Join(Tail(texts), sep)

\* _bbox_key                                                 (main.py 82-84)
bbox_key(b) == <<Round1(b.bbox.y0), Round1(b.bbox.x0)>>

\* sorted(blocks, key=_bbox_key)                                (main.py 87)
SortRichBlocks(bs) ==
    Elements(StableSort([i \in 1..Len(bs) |-> <<bbox_key(bs[i]), bs[i]>>]))

\* sorted(spans, key=origin x)                                 (main.py 103)
SortSpans(sps) ==
    Elements(StableSort([i \in 1..Len(sps) |-> <<<<sps[i].origin, 0>>, sps[i]>>]))

\* parts: the non-empty span texts, in span order          (main.py 106-111)
RECURSIVE Parts(_)
Parts(sps) ==
    IF sps = <<>> THEN <<>>
    ELSE IF Head(sps).text = <<>> THEN Parts(Tail(sps))
    ELSE <<Head(sps).text>> \o Parts(Tail(sps))

\* The tuples one block's lines contribute                  (main.py 96-117)
RECURSIVE LinesOfBlock(_)
LinesOfBlock(lns) ==
    IF lns = <<>> THEN <<>>
    ELSE LET ln    == Head(lns)
             parts == Parts(SortSpans(ln.spans))
         IN  IF parts = <<>> THEN LinesOfBlock(Tail(lns))
             ELSE <<[y0 |-> ln.y0, y1 |-> ln.y1, x0 |-> ln.x0,
                     text |-> Join(parts, <<>>)]>> \o LinesOfBlock(Tail(lns))

\* The loop over the sorted blocks, text blocks only        (main.py 91-117)
RECURSIVE LinesOfBlocks(_)
LinesOfBlocks(bs) ==
    IF bs = <<>> THEN <<>>
    ELSE IF Head(bs).type # 0 THEN LinesOfBlocks(Tail(bs))
    ELSE LinesOfBlock(Head(bs).lines) \o LinesOfBlocks(Tail(bs))

\* collected_lines as it stands at main.py 119.
CollectLines(rd) == LinesOfBlocks(SortRichBlocks(rd.blocks))

\* The key of the global sort                                  (main.py 123)
line_key(t) == <<Round1(t.y0), Round1(t.x0)>>

\* collected_lines.sort(key=...)                               (main.py 123)
SortLines(ls) ==
    Elements(StableSort([i \in 1..Len(ls) |-> <<line_key(ls[i]), ls[i]>>]))

para_gap_thresh == Pt(7)                                    \* main.py 130
indent_thresh   == Pt(18)                                   \* main.py 131

Abs(v) == IF v < 0 THEN -v ELSE v

\* The paragraph test with `>=` in place of `>` on the vertical gap.
new_para_inclusive(prev_y1, prev_x0, y0, x0) ==
    LET vgap   == y0 - prev_y1
        xdelta == Abs(x0 - prev_x0)
    IN  (vgap >= para_gap_thresh) \/ (xdelta > indent_thresh /\ vgap > Pt(2))

\* new_para for a line that is not the first            (main.py 137-139)
new_para(prev_y1, prev_x0, y0, x0) ==
    LET vgap   == y0 - prev_y1
        xdelta == Abs(x0 - prev_x0)
    IN  (vgap > para_gap_thresh) \/ (xdelta > indent_thresh /\ vgap > Pt(2))

\* The paragraph loop from line i on; current and paragraphs are the
\* loop's accumulators                                     (main.py 133-149)
RECURSIVE ParagraphLoop(_, _, _, _)
ParagraphLoop(ls, i, current, paragraphs) ==
    IF i > Len(ls)
      THEN IF current # <<>>
             THEN Append(paragraphs, Join(current, <<NL>>)) ELSE paragraphs
    ELSE IF i = 1
      THEN ParagraphLoop(ls, i + 1, Append(current, ls[i].text), paragraphs)
    ELSE IF new_para(ls[i - 1].y1, ls[i - 1].x0, ls[i].y0, ls[i].x0)
      THEN ParagraphLoop(ls, i + 1, <<ls[i].text>>,
                         Append(paragraphs, Join(current, <<NL>>)))
    ELSE ParagraphLoop(ls, i + 1, Append(current, ls[i].text), paragraphs)

\* page_text of the sorted lines                           (main.py 125-152)
SegmentText(sorted) == Join(ParagraphLoop(sorted, 1, <<>>, <<>>), <<NL, NL>>)

\* ---- tier 2: _extract_page_text_blocks                    (main.py 26-55)
\* sorted(blocks, key=(round(y0,1), round(x0,1)))               (main.py 35)
SortBlockTuples(bs) ==
    Elements(StableSort([i \in 1..Len(bs) |->
                            <<<<Round1(bs[i].y0), Round1(bs[i].x0)>>, bs[i]>>]))

\* texts: non-empty text, block type 0 or not given         (main.py 39-52)
RECURSIVE BlockTexts(_)
BlockTexts(bs) ==
    IF bs = <<>> THEN <<>>
    ELSE IF Head(bs).text = <<>> THEN BlockTexts(Tail(bs))
    ELSE IF Head(bs).btype \notin {0, -1} THEN BlockTexts(Tail(bs))
    ELSE <<Head(bs).text>> \o BlockTexts(Tail(bs))

\* joined                                                       (main.py 54)
BlocksJoined(bs) == Join(BlockTexts(SortBlockTuples(bs)), <<NL>>)

\* `return joined if joined else page.get_text("text")`        (main.py 55)
BlockTierEmptyNever(joined) == FALSE

BlockTierEmpty(joined) == joined = <<>>

\* ---- what the backend may answer
Unasked   == [st |-> "unasked", val |-> <<>>]
Failed    == [st |-> "raise", val |-> <<>>]
Answer(v) == [st |-> "ok", val |-> v]

Span(o, t) == [origin |-> o, text |-> t]

Line(x0, y0, spans) == [x0 |-> x0, y0 |-> y0, y1 |-> y0 + Pt(10), spans |-> spans]

\* Two columns at disjoint x-ranges (left at x = 0, right at x = 18.0625),
\* two rows; the left column's text is in "a", "b", "c", the right's in
\* "d", "e".  One line has its spans out of order, one has no text.
LeftX  == Pt(0)
RightX == Pt(18) + 1

LeftLines  == {Line(LeftX, 0, <<Span(LeftX, <<"a">>)>>),
               Line(LeftX, Pt(12) + 1,
                    <<Span(LeftX + Pt(5), <<"c">>), Span(LeftX, <<"b">>)>>)}
RightLines == {Line(RightX, 0, <<Span(RightX, <<"d">>)>>),
               Line(RightX, Pt(12) + 2, <<Span(RightX, <<"e">>)>>)}
BlankLines == {Line(LeftX, Pt(30), <<Span(LeftX, <<>>)>>)}

LineCat == LeftLines \cup RightLines \cup BlankLines

Min(S) == CHOOSE v \in S : \A w \in S : v <= w

\* A block of the rich answer; its bbox encloses its lines.
RichBlock(type, lns) ==
    [type |-> type, lines |-> lns,
     bbox |-> IF lns = <<>> THEN [x0 |-> 0, y0 |-> 0]
              ELSE [x0 |-> Min({lns[i].x0 : i \in 1..Len(lns)}),
                    y0 |-> Min({lns[i].y0 : i \in 1..Len(lns)})]]

\* The lines of `lns` that the assignment g puts into block j.
RECURSIVE LinesIn(_, _, _)
LinesIn(lns, g, j) ==
    IF lns = <<>> THEN <<>>
    ELSE (IF Head(g) = j THEN <<Head(lns)>> ELSE <<>>)
           \o LinesIn(Tail(lns), Tail(g), j)

\* What a non-text (image) block may carry as "lines": nothing, as the
\* backend reports image blocks, or one stray line.
ImageBlockLines ==
    {<<>>, <<Line(RightX, 0, <<Span(RightX, <<"d">>)>>)>>}

\* A page of k blocks: lns are the page's lines in block order, g[i] is the
\* block of line i (never decreasing), ty[j] the type of block j.
RichPage(k, lns, g, ty) ==
    [blocks |-> [j \in 1..k |-> RichBlock(ty[j], LinesIn(lns, g, j))]]

WellFormedPage(pg) ==
    \A j \in 1..Len(pg.blocks) :
        pg.blocks[j].type = 1 => pg.blocks[j].lines \in ImageBlockLines

Monotone(g) == \A i \in 1..Len(g) : \A i2 \in i..Len(g) : g[i] <= g[i2]

BlockTuple(x0, y0, text, btype) == [x0 |-> x0, y0 |-> y0, text |-> text, btype |-> btype]

\* btype: 0 text, 1 image, -1 a tuple too short to carry a type.
BlockCat == {BlockTuple(0, Pt(20), <<"x">>, 0),
             BlockTuple(0, 0, <<"y">>, -1),
             BlockTuple(0, Pt(40), <<"i">>, 1),
             BlockTuple(0, Pt(60), <<>>, 0)}

BlockAnswers ==
    {Failed} \cup {Answer(bs) : bs \in UNION {[1..k -> BlockCat] : k \in 0..MaxBlocks}}

PlainAnswers == {Failed, Answer(<<>>), Answer(<<"p">>)}

\* Tier 1 has no usable output: the query raised (main.py 74) or no line
\* was collected (main.py 119).
RichTierEmpty(ans) == ans.st = "raise" \/ CollectLines(ans.val) = <<>>

RichText(ans) == SegmentText(SortLines(CollectLines(ans.val)))

InitPage ==
    /\ ReqIdle /\ NormIdle
    /\ p_pc = "TryRich" /\ queries = <<>>
    /\ richAns = Unasked /\ blockAns = Unasked /\ plainAns = Unasked
    /\ collected_lines = <<>> /\ p_result = <<>> /\ surfaced = "none"

\* Tier 1 on the backend's answer ans                      (main.py 72-153)
RichStep(ans) ==
    /\ richAns' = ans
    /\ queries' = Append(queries, "rawdict")
    /\ IF RichTierEmpty(ans)
         THEN /\ p_pc' = "TryBlock"
              /\ UNCHANGED <<collected_lines, p_result>>
         ELSE /\ collected_lines' = SortLines(CollectLines(ans.val))
              /\ IF RichText(ans) # <<>>
                   THEN p_pc' = "Done" /\ p_result' = RichText(ans)
                   ELSE p_pc' = "TryBlock" /\ UNCHANGED p_result
    /\ UNCHANGED <<reqVars, normVars, blockAns, plainAns, surfaced>>

\* The rawdict query raises, or answers with a page of at most MaxBlocks
\* blocks (text or image) holding at most MaxLines lines of LineCat in all.
TryRich ==
    /\ p_pc = "TryRich"
    /\ \/ RichStep(Failed)
       \/ \E k \in 0..MaxBlocks : \E n \in 0..MaxLines :
            \E lns \in [1..n -> LineCat] : \E g \in [1..n -> 1..k] :
              \E ty \in [1..k -> {0, 1}] :
                 /\ Monotone(g)
                 /\ WellFormedPage(RichPage(k, lns, g, ty))
                 /\ RichStep(Answer(RichPage(k, lns, g, ty)))

\* Tier 2                                                     (main.py 28-55)
TryBlock ==
    /\ p_pc = "TryBlock"
    /\ \E ans \in BlockAnswers :
         /\ blockAns' = ans
         /\ queries' = Append(queries, "blocks")
         /\ IF ans.st = "raise" \/ BlockTierEmpty(BlocksJoined(ans.val))
              THEN p_pc' = "TryPlain" /\ UNCHANGED p_result
              ELSE p_pc' = "Done" /\ p_result' = BlocksJoined(ans.val)
    /\ UNCHANGED <<reqVars, normVars, richAns, plainAns, collected_lines, surfaced>>

\* Tier 3: page.get_text("text"), returned as it is       (main.py 31, 55)
TryPlain ==
    /\ p_pc = "TryPlain"
    /\ \E ans \in PlainAnswers :
         /\ plainAns' = ans
         /\ queries' = Append(queries, "text")
         /\ IF ans.st = "raise"
              THEN p_pc' = "Raised" /\ surfaced' = "text" /\ UNCHANGED p_result
              ELSE p_pc' = "Done" /\ p_result' = ans.val /\ UNCHANGED surfaced
    /\ UNCHANGED <<reqVars, normVars, richAns, blockAns, collected_lines>>

NextPage ==
    \/ TryRich
    \/ TryBlock
    \/ TryPlain

SpecPage == InitPage /\ [][NextPage]_vars

\* ------------------------------------------------ claims on the selector
IsPrefix(a, b) == Len(a) <= Len(b) /\ \A i \in 1..Len(a) : a[i] = b[i]

RichUnusable  == richAns.st = "raise" \/ CollectLines(richAns.val) = <<>>

BlockUnusable == blockAns.st = "raise" \/ BlocksJoined(blockAns.val) = <<>>

\* What _extract_page_text_blocks alone returns on the answers given.
BlocksAlone == IF BlockUnusable THEN plainAns.val ELSE BlocksJoined(blockAns.val)

\* C3: the tiers are walked in the order rich -> block -> plain; the block
\* query is issued only after the rich query raised or gave no lines, the
\* plain query only after the block query raised or gave empty text; the
\* result is the output of the first usable tier (with tier 1 empty it is
\* what the block function alone returns); a failure of the rich or block
\* query never reaches the caller.
C3_TierOrder ==
    /\ IsPrefix(queries, <<"rawdict", "blocks", "text">>)
    /\ Len(queries) >= 2 => RichUnusable
    /\ Len(queries) >= 3 => BlockUnusable
    /\ p_pc = "TryBlock" => Len(queries) = 1
    /\ p_pc = "TryPlain" => Len(queries) = 2
    /\ p_pc = "Done" =>
         /\ Len(queries) >= 1
         /\ IF ~RichUnusable
              THEN Len(queries) = 1 /\ p_result = RichText(richAns)
              ELSE /\ Len(queries) = (IF BlockUnusable THEN 3 ELSE 2)
                   /\ p_result = BlocksAlone
    /\ surfaced \in {"none", "text"}
    /\ p_pc = "Raised" => /\ surfaced = "text"
                          /\ queries = <<"rawdict", "blocks", "text">>
                          /\ plainAns.st = "raise"
    /\ p_pc # "Raised" => surfaced = "none"

\* C3 witness: tier 1 answered with an empty structured result, tier 2 gave
\* text, and that text was returned.
C3_FellBackToBlocks ==
    /\ p_pc = "Done" /\ queries = <<"rawdict", "blocks">>
    /\ richAns.st = "ok" /\ blockAns.st = "ok"
    /\ p_result # <<>> /\ p_result = BlocksAlone

LeftChars  == {"a", "b", "c"}
RightChars == {"d", "e"}

\* C1: on a page with two columns at disjoint x-ranges, the text of tier 1
\* holds every left-column line before any right-column line.
C1_LeftColumnBeforeRight ==
    (p_pc = "Done" /\ queries = <<"rawdict">>) =>
        \A i \in 1..Len(p_result) : \A j \in 1..Len(p_result) :
            (p_result[i] \in LeftChars /\ p_result[j] \in RightChars) => i < j

\* ================================= the line sort and paragraph segmenter
MaxSegLines == 3

SegY == {0, Pt(12), Pt(12) + 1, Pt(15), Pt(17), Pt(17) + 1, Pt(18)}
SegX == {0, Pt(18), Pt(18) + 1}

Letters == <<"a", "b", "c", "d", "e", "f">>

\* The rawdict answer of one text block whose i-th line has its top-left
\* corner at geo[i] = <<x0, y0>> and the one-span text Letters[i].
SegPage(geo) ==
    [blocks |-> << RichBlock(0, [i \in 1..Len(geo) |->
                      Line(geo[i][1], geo[i][2],
                           <<Span(geo[i][1], <<Letters[i]>>)>>)]) >>]

\* The selector after the collection loop (main.py 117): the rich query was
\* answered and collected_lines holds the page's lines in block order.
InitSeg ==
    /\ ReqIdle /\ NormIdle
    /\ \E n \in 0..MaxSegLines : \E geo \in [1..n -> SegX \X SegY] :
         /\ richAns = Answer(SegPage(geo))
         /\ collected_lines = CollectLines(SegPage(geo))
    /\ p_pc = "Collected" /\ queries = <<"rawdict">>
    /\ blockAns = Unasked /\ plainAns = Unasked
    /\ p_result = <<>> /\ surfaced = "none"

\* main.py 119-153: no line -> tier 2; else sort all lines, group them
\* into paragraphs, join.
SegmentLines ==
    /\ p_pc = "Collected"
    /\ IF collected_lines = <<>>
         THEN /\ p_pc' = "TryBlock"
              /\ UNCHANGED <<collected_lines, p_result>>
         ELSE /\ collected_lines' = SortLines(collected_lines)
              /\ IF SegmentText(SortLines(collected_lines)) # <<>>
                   THEN /\ p_pc' = "Done"
                        /\ p_result' = SegmentText(SortLines(collected_lines))
                   ELSE p_pc' = "TryBlock" /\ UNCHANGED p_result
    /\ UNCHANGED <<reqVars, normVars, queries, richAns, blockAns, plainAns,
                   surfaced>>

NextSeg ==
    \/ SegmentLines
    \/ TryBlock
    \/ TryPlain

SpecSeg == InitSeg /\ [][NextSeg]_vars

\* ---- claims on the segmenter
VGap(L, i)   == L[i].y0 - L[i - 1].y1
XDelta(L, i) == IF L[i].x0 >= L[i - 1].x0
                  THEN L[i].x0 - L[i - 1].x0 ELSE L[i - 1].x0 - L[i].x0

\* 7.0, 18.0 and 2.0 points in sixteenths.
StartsParagraph(L, i) ==
    VGap(L, i) > 7 * 16 \/ (XDelta(L, i) > 18 * 16 /\ VGap(L, i) > 2 * 16)

RECURSIVE ExpectedFrom(_, _)
ExpectedFrom(L, i) ==
    IF i > Len(L) THEN <<>>
    ELSE (IF i = 1 THEN <<>>
          ELSE IF StartsParagraph(L, i) THEN <<NL, NL>> ELSE <<NL>>)
         \o L[i].text \o ExpectedFrom(L, i + 1)

SegmentedByTier1 == p_pc = "Done" /\ queries = <<"rawdict">>

\* C10: walking the sorted line list, a line other than the first starts a
\* new paragraph iff vgap > 7.0 or (xdelta > 18.0 and vgap > 2.0); so the
\* output is every line's text once, in list order, joined by a newline
\* inside a paragraph and by a blank line between paragraphs.
C10_ParagraphRule ==
    SegmentedByTier1 =>
        /\ p_result = ExpectedFrom(collected_lines, 1)
        /\ Len(collected_lines) = 2 /\ VGap(collected_lines, 2) = 8 * 16
              => p_result = collected_lines[1].text \o <<NL, NL>>
                              \o collected_lines[2].text
        /\ Len(collected_lines) = 2 /\ VGap(collected_lines, 2) = 5 * 16
             /\ XDelta(collected_lines, 2) = 0
              => p_result = collected_lines[1].text \o <<NL>>
                              \o collected_lines[2].text

\* C10 witness: three lines; the second starts a paragraph by the indent
\* rule alone (vgap = 7.0 exactly, xdelta > 18.0), the third does not
\* (same x0, vgap below 2.0).
C10_IndentBreakThenJoin ==
    /\ SegmentedByTier1 /\ Len(collected_lines) = 3
    /\ VGap(collected_lines, 2) = 7 * 16
    /\ XDelta(collected_lines, 2) > 18 * 16
    /\ VGap(collected_lines, 3) < 2 * 16 /\ XDelta(collected_lines, 3) = 0
    /\ p_result = collected_lines[1].text \o <<NL, NL>> \o collected_lines[2].text
                    \o <<NL>> \o collected_lines[3].text

====
